---- MODULE Spec2Model ----
(***************************************************************************)
(* Model of the turn-processing state machine of spine.py (class Spine):   *)
(* the persisted document state.json, the in-memory document of each Spine *)
(* handle, load_state / save_state and process_turn.                       *)
(*                                                                         *)
(* Numbers: rv, pv, threshold and the wave entries are Python floats in    *)
(* the source.  They are modelled in fixed point, in thousandths (0.02 is  *)
(* 20, 1.0 is 1000), so that the sums and the halving of avg_pressure are  *)
(* exact; the rounding error of binary floating point (below 1e-15 per     *)
(* addition) is not modelled.                                              *)
(* Characters are Unicode code points (integers); a string is a sequence   *)
(* of code points.                                                         *)
(* A file is a sequence of serialized top-level sections of the document,  *)
(* in the order json.dump writes them; a strict prefix is a truncated      *)
(* file, which json.load refuses.                                          *)
(* spine.py imports the NPC model under the name PCONPC, which schema.py   *)
(* does not define; the model reads it as schema.NPC.  The turn's          *)
(* dialogue_jp, punsys_feedback and pc_move_suggestions are subscripted by *)
(* the code, so a turn is a record of mappings.                            *)
(*                                                                         *)
(* The two HTTP front ends are modelled next to the spine, which neither   *)
(* of them calls: POST /play of gal/server.py with gal/bridge.py           *)
(* (SpecPlay), and POST /vv/jobs of main.py (SpecJobs).  Their requests    *)
(* are answered one at a time.                                             *)
(***************************************************************************)
EXTENDS Integers, Sequences, FiniteSets, TLC

VARIABLES
    disk,    \* state.json: whether it exists, and its sequence of sections
    state,   \* state[h]: self.state of Spine handle h (read only once built)
    wk,      \* wk[h]: where the thread that owns handle h is
    last,    \* record of the most recent call and what it observed
    hist,    \* counters over the run: successful turns, initial beat_idx
    env,          \* the environment variables the servers read at import
    LAST_ANCHOR,  \* gal/server.py: the module global of that name
    calls,        \* gal/server.py: the /play calls so far, oldest first
    job,          \* main.py: the most recent POST /vv/jobs and its response
    inbound       \* the turn most recently handed to process_turn, in full

vars == <<disk, state, wk, last, hist, env, LAST_ANCHOR, calls, job, inbound>>

\* the variables of spine.py, and those of the two HTTP front ends
core == <<disk, state, wk, last, hist>>
web == <<env, LAST_ANCHOR, calls, job>>

(***************************************************************************)
(* Bounds of the model.                                                    *)
(***************************************************************************)
MaxBeat == 9          \* no turn is started once beat_idx has reached it
MaxConcTurns == 2     \* interleaved runs: no turn starts after so many successes
MaxFaultyBeat == 3    \* the same cap for the specification of a failing store

(***************************************************************************)
(* Program constants (thousandths).                                        *)
(***************************************************************************)
One == 1000           \* the clamp 1.0 of min(1.0, ...)
RvStep == 20          \* 0.02
PvStep == 30          \* 0.03
CooldownReset == 5    \* fp["cooldown_left"] = 5

Handles == {"h1", "h2"}
NoFile == [exists |-> FALSE, data |-> <<>>]
File(data) == [exists |-> TRUE, data |-> data]
\* what a reader finds where no writer has written yet (a hole in the file)
Nul == [key |-> "", val |-> ""]

Min(a, b) == IF a <= b THEN a ELSE b
Max(a, b) == IF a >= b THEN a ELSE b

(***************************************************************************)
(* Spine.default_state                                                     *)
(***************************************************************************)
Aiko ==
    [id |-> "CNPC-1", name |-> "Aiko", traits |-> <<"witty", "protective">>,
     quirks |-> <<"tease", "soft_dom">>, rv |-> 600, pv |-> 400,
     voice_style |-> "light, clipped"]

default_state ==
    [version |-> "v6",
     scene |-> [id |-> "S-001", tone |-> "slow_burn", location |-> "rooftop",
                beat_idx |-> 0, spi |-> 3],
     pc |-> [name |-> "Bullet", stance |-> "active", last_move |-> ""],
     npcs |-> <<Aiko>>,
     punsys |-> [tier |-> 2, wave |-> <<200, 400, 550, 350>>, gate |-> "open"],
     flashpoint |-> [armed |-> TRUE, type |-> "jealousy", threshold |-> 700,
                     cooldown_left |-> 2]]

(***************************************************************************)
(* Documents that may already be in state.json when a handle is built.     *)
(* Each satisfies the data model: rv, pv, threshold in [0,1], beat_idx and *)
(* cooldown_left non-negative, at least one NPC.                           *)
(***************************************************************************)
Rin ==
    [id |-> "CNPC-2", name |-> "Rin", traits |-> <<"quiet">>,
     quirks |-> <<"deadpan">>, rv |-> 300, pv |-> 990,
     voice_style |-> "flat"]

WithNpc0(d, rv, pv) == [d EXCEPT !.npcs[1].rv = rv, !.npcs[1].pv = pv]
WithFp(d, armed, threshold, cooldown) ==
    [d EXCEPT !.flashpoint.armed = armed, !.flashpoint.threshold = threshold,
              !.flashpoint.cooldown_left = cooldown]

StoredDocs ==
    { default_state,
      \* about to clamp: 0.99 + 0.02 and 0.98 + 0.03 exceed 1.0
      WithFp(WithNpc0(default_state, 990, 980), TRUE, 1000, 1),
      \* average already over the threshold, cooldown run out
      WithFp(WithNpc0(default_state, 760, 640), TRUE, 700, 0),
      \* already discharged
      WithFp(WithNpc0(default_state, 900, 900), FALSE, 700, 3),
      \* two NPCs, tier 1; the first NPC stays under the threshold within the
      \* bound, while the average over both NPCs is above it
      [WithFp(WithNpc0(default_state, 100, 50), TRUE, 300, 0)
          EXCEPT !.npcs = @ \o <<Rin>>, !.punsys.tier = 1,
                 !.scene.beat_idx = 4] }

(***************************************************************************)
(* json.dump / json.load: the document as a sequence of its top-level      *)
(* sections, in insertion order.                                           *)
(***************************************************************************)
Serialize(d) ==
    << [key |-> "version", val |-> d.version],
       [key |-> "scene", val |-> d.scene],
       [key |-> "pc", val |-> d.pc],
       [key |-> "npcs", val |-> d.npcs],
       [key |-> "punsys", val |-> d.punsys],
       [key |-> "flashpoint", val |-> d.flashpoint] >>

NSections == Len(Serialize(default_state))

\* json.load: the document rebuilt from the sections
Parse(data) ==
    [version |-> data[1].val, scene |-> data[2].val, pc |-> data[3].val,
     npcs |-> data[4].val, punsys |-> data[5].val,
     flashpoint |-> data[6].val]

\* json.load succeeds only on a complete document
Parses(data) ==
    /\ Len(data) = NSections
    /\ \A i \in 1..NSections : data[i].key = Serialize(default_state)[i].key

(***************************************************************************)
(* Inbound turns (schema.NarrativeTurn).  Strings are code points:         *)
(* 81 Q, 46 '.', 67 C, 122 z, 91 '[', 64 '@', 12354 hiragana a,            *)
(* 19968 and 33853 CJK ideographs, 12290 ideographic full stop,            *)
(* 12288 ideographic space, 40880 the first code point after U+9FAF.       *)
(***************************************************************************)
Narrations ==
    { <<>>, <<81, 46>>, <<81, 12354>>, <<19968>>, <<12288, 40880>> }

JpLine == [speaker |-> "Aiko", line |-> <<33853, 12290>>]

Dialogues ==
    { <<>>,
      <<JpLine>>,
      <<[speaker |-> "Aiko", line |-> <<67>>]>>,
      <<JpLine, [speaker |-> "Aiko", line |-> <<12354, 122>>]>>,
      <<[speaker |-> "Aiko", line |-> <<91, 64>>]>> }

TierSuggestions == {1, 2, 5}

MoveLists ==
    { <<>>,
      <<[id |-> "m1", label |-> "wait"]>>,
      <<[id |-> "m2", label |-> "tease"], [id |-> "m1", label |-> "wait"]>> }

Turns ==
    [narration_en : Narrations, dialogue_jp : Dialogues,
     punsys_feedback : [pressure_hint : {500}, tier_suggestion : TierSuggestions],
     pc_move_suggestions : MoveLists]

\* the turns the interleaved and the failing-store specifications draw from:
\* one that passes every check, with and without a move, and one rejected
FewTurns ==
    { t \in Turns :
        /\ t.narration_en = <<81, 46>>
        /\ t.dialogue_jp \in { <<JpLine>>, <<[speaker |-> "Aiko", line |-> <<67>>]>> }
        /\ t.punsys_feedback.tier_suggestion = 1
        /\ Len(t.pc_move_suggestions) <= 1 }

\* random.uniform(0.2, 0.7) rounded to 2 decimals, in thousandths
RoundedUniform == {10 * k : k \in 20..70}

\* the results of random.random() the model follows, one per wave entry, in
\* thousandths (0 .. 999, since random() < 1)
RandomDraws == { <<0, 0, 0, 0>>, <<999, 500, 13, 257>> }

\* random.uniform(0.2, 0.7) = 0.2 + (0.7 - 0.2) * random(), in units of 0.0001
Uniform(r) == 2000 + 5 * r

\* mutant of Round2: the value is not rounded, only cut to thousandths
Round2None(x) == x \div 10

\* round(x, 2) of a value in units of 0.0001: the nearest multiple of 0.01,
\* a tie going to the even one; the result is in thousandths
Round2(x) ==
    LET q == x \div 100
        rem == x % 100
    IN  IF rem > 50 \/ (rem = 50 /\ q % 2 = 1) THEN 10 * (q + 1) ELSE 10 * q

\* [round(random.uniform(0.2, 0.7), 2) for _ in range(4)]
Resample(draws) == [i \in 1..4 |-> Round2(Uniform(draws[i]))]

\* the waves the model follows: <<200, 200, 200, 200>>, <<700, 450, 210, 330>>
WaveSamples == { Resample(d) : d \in RandomDraws }

(***************************************************************************)
(* Spine.contains_japanese / Spine.contains_english                        *)
(***************************************************************************)
contains_japanese(c) ==
    (12352 <= c /\ c <= 12543) \/ (19968 <= c /\ c <= 40879)

contains_english(c) ==
    (65 <= c /\ c <= 90) \/ (97 <= c /\ c <= 122)

JpInNarration(turn) ==
    \E i \in 1..Len(turn.narration_en) : contains_japanese(turn.narration_en[i])

EnInDialogue(turn) ==
    \E j \in 1..Len(turn.dialogue_jp) :
        \E i \in 1..Len(turn.dialogue_jp[j].line) :
            contains_english(turn.dialogue_jp[j].line[i])

(***************************************************************************)
(* process_turn, lines 65-76: the three checks, in order.  The result is   *)
(* the message of the raised exception, Pass when none is raised.          *)
(***************************************************************************)
Pass == ""
ReasonJp == "JP detected in narration"
ReasonEn == "EN detected in dialogue"
ReasonTier == "Tier exceeded"

\* mutants of Validate: the dialogue check left out; the tier compared with
\* >=; the tier checked first
ValidateNoDialogue(st, turn) ==
    IF JpInNarration(turn) THEN ReasonJp
    ELSE IF turn.punsys_feedback.tier_suggestion > st.punsys.tier THEN ReasonTier
    ELSE Pass

ValidateTierGe(st, turn) ==
    IF JpInNarration(turn) THEN ReasonJp
    ELSE IF EnInDialogue(turn) THEN ReasonEn
    ELSE IF turn.punsys_feedback.tier_suggestion >= st.punsys.tier THEN ReasonTier
    ELSE Pass

ValidateTierFirst(st, turn) ==
    IF turn.punsys_feedback.tier_suggestion > st.punsys.tier THEN ReasonTier
    ELSE IF JpInNarration(turn) THEN ReasonJp
    ELSE IF EnInDialogue(turn) THEN ReasonEn
    ELSE Pass

\* mutant of Validate: the dialogue checked before the narration
ValidateDialogueFirst(st, turn) ==
    IF EnInDialogue(turn) THEN ReasonEn
    ELSE IF JpInNarration(turn) THEN ReasonJp
    ELSE IF turn.punsys_feedback.tier_suggestion > st.punsys.tier THEN ReasonTier
    ELSE Pass

\* mutant of Validate: a turn for another beat than the stored one is refused
ValidateBeatMatch(st, turn) ==
    IF JpInNarration(turn) THEN ReasonJp
    ELSE IF EnInDialogue(turn) THEN ReasonEn
    ELSE IF turn.punsys_feedback.tier_suggestion > st.punsys.tier THEN ReasonTier
    ELSE IF turn.beat_idx # st.scene.beat_idx THEN "Beat mismatch"
    ELSE Pass

Validate(st, turn) ==
    IF JpInNarration(turn) THEN ReasonJp
    ELSE IF EnInDialogue(turn) THEN ReasonEn
    ELSE IF turn.punsys_feedback.tier_suggestion > st.punsys.tier THEN ReasonTier
    ELSE Pass

(***************************************************************************)
(* process_turn, lines 78-96: the mutation of self.state.                  *)
(***************************************************************************)
\* mutant of FirstLabel: the label of the last suggestion
FirstLabelLast(turn) ==
    IF Len(turn.pc_move_suggestions) > 0
    THEN turn.pc_move_suggestions[Len(turn.pc_move_suggestions)].label
    ELSE ""

FirstLabel(turn) ==
    IF Len(turn.pc_move_suggestions) > 0
    THEN turn.pc_move_suggestions[1].label
    ELSE ""

\* mutant of UpdateNpc: no clamp
UpdateNpcNoClamp(npc) ==
    [npc EXCEPT !.rv = @ + RvStep, !.pv = @ + PvStep]

\* mutant of UpdateNpc: pv is left as it is
UpdateNpcRvOnly(npc) ==
    [npc EXCEPT !.rv = Min(One, @ + RvStep)]

UpdateNpc(npc) ==
    [npc EXCEPT !.rv = Min(One, @ + RvStep), !.pv = Min(One, @ + PvStep)]

avg_pressure(npc) == (npc.rv + npc.pv) \div 2

\* mutants of UpdateFlashpoint: the threshold compared with >; the threshold
\* checked before the cooldown
UpdateFlashpointStrict(fp, avg) ==
    IF fp.cooldown_left > 0
    THEN [fp EXCEPT !.cooldown_left = @ - 1]
    ELSE IF fp.armed /\ avg > fp.threshold
         THEN [fp EXCEPT !.armed = FALSE, !.cooldown_left = CooldownReset]
         ELSE fp

UpdateFlashpointThresholdFirst(fp, avg) ==
    IF fp.armed /\ avg >= fp.threshold
    THEN [fp EXCEPT !.armed = FALSE, !.cooldown_left = CooldownReset]
    ELSE IF fp.cooldown_left > 0
         THEN [fp EXCEPT !.cooldown_left = @ - 1]
         ELSE fp

\* mutant of UpdateFlashpoint: the cooldown is checked but not decremented
UpdateFlashpointStuck(fp, avg) ==
    IF fp.cooldown_left > 0
    THEN fp
    ELSE IF fp.armed /\ avg >= fp.threshold
         THEN [fp EXCEPT !.armed = FALSE, !.cooldown_left = CooldownReset]
         ELSE fp

\* mutant of UpdateFlashpoint: the flashpoint is armed again when the
\* cooldown runs out
UpdateFlashpointRearm(fp, avg) ==
    IF fp.cooldown_left > 0
    THEN [fp EXCEPT !.cooldown_left = @ - 1,
                    !.armed = (@ \/ fp.cooldown_left = 1)]
    ELSE IF fp.armed /\ avg >= fp.threshold
         THEN [fp EXCEPT !.armed = FALSE, !.cooldown_left = CooldownReset]
         ELSE fp

UpdateFlashpoint(fp, avg) ==
    IF fp.cooldown_left > 0
    THEN [fp EXCEPT !.cooldown_left = @ - 1]
    ELSE IF fp.armed /\ avg >= fp.threshold
         THEN [fp EXCEPT !.armed = FALSE, !.cooldown_left = CooldownReset]
         ELSE fp

\* mutant of Advance: the increment of beat_idx left out
AdvanceBeatStuck(st, turn, wave) ==
    LET npc == UpdateNpc(st.npcs[1])
    IN  [st EXCEPT !.pc.last_move = FirstLabel(turn),
                   !.npcs[1] = npc,
                   !.flashpoint = UpdateFlashpoint(@, avg_pressure(npc)),
                   !.punsys.wave = wave]

\* mutant of Advance: the flashpoint is driven by the first wave entry
AdvanceWavePressure(st, turn, wave) ==
    LET npc == UpdateNpc(st.npcs[1])
    IN  [st EXCEPT !.scene.beat_idx = @ + 1,
                   !.pc.last_move = FirstLabel(turn),
                   !.npcs[1] = npc,
                   !.flashpoint = UpdateFlashpoint(@, wave[1]),
                   !.punsys.wave = wave]

\* mutant of Advance: every NPC of the roster is updated
AdvanceAllNpcs(st, turn, wave) ==
    LET npc == UpdateNpc(st.npcs[1])
    IN  [st EXCEPT !.scene.beat_idx = @ + 1,
                   !.pc.last_move = FirstLabel(turn),
                   !.npcs = [i \in 1..Len(st.npcs) |-> UpdateNpc(st.npcs[i])],
                   !.flashpoint = UpdateFlashpoint(@, avg_pressure(npc)),
                   !.punsys.wave = wave]

\* mutant of Advance: the stored tier follows the turn's tier_suggestion
AdvanceTierFollows(st, turn, wave) ==
    LET npc == UpdateNpc(st.npcs[1])
    IN  [st EXCEPT !.scene.beat_idx = @ + 1,
                   !.pc.last_move = FirstLabel(turn),
                   !.npcs[1] = npc,
                   !.flashpoint = UpdateFlashpoint(@, avg_pressure(npc)),
                   !.punsys.tier = turn.punsys_feedback.tier_suggestion,
                   !.punsys.wave = wave]

Advance(st, turn, wave) ==
    LET npc == UpdateNpc(st.npcs[1])
    IN  [st EXCEPT !.scene.beat_idx = @ + 1,
                   !.pc.last_move = FirstLabel(turn),
                   !.npcs[1] = npc,
                   !.flashpoint = UpdateFlashpoint(@, avg_pressure(npc)),
                   !.punsys.wave = wave]

\* process_turn, lines 100-120: the EngineTurn returned to the caller
EngineTurn(st) ==
    [version |-> "v6", seed |-> 1337,
     lang_mode |-> "EN_narration_JP_dialogue",
     scene |-> st.scene, pc |-> st.pc, npcs |-> <<st.npcs[1]>>,
     punsys |-> st.punsys, flashpoint |-> st.flashpoint,
     constraints |-> [max_tokens |-> 250, no_meta |-> TRUE,
                      jp_dialogue_only |-> TRUE,
                      furigana_in_breakdown_only |-> TRUE],
     asks |-> [render_narration |-> TRUE, suggest_pc_moves |-> 3,
               return_observed_markers |-> <<"trait", "quirk", "tone">>]]

NoResponse == [version |-> "", seed |-> 0, lang_mode |-> "",
               scene |-> default_state.scene, pc |-> default_state.pc,
               npcs |-> <<>>, punsys |-> default_state.punsys,
               flashpoint |-> default_state.flashpoint,
               constraints |-> [max_tokens |-> 0, no_meta |-> FALSE,
                                jp_dialogue_only |-> FALSE,
                                furigana_in_breakdown_only |-> FALSE],
               asks |-> [render_narration |-> FALSE, suggest_pc_moves |-> 0,
                         return_observed_markers |-> <<>>]]

(***************************************************************************)
(* The record of the most recent call: what was asked, what the handle and *)
(* the file held before it, and how it ended.                              *)
(***************************************************************************)
Call(op, h, turn, pre, diskBefore, ok, reason, response) ==
    [op |-> op, h |-> h,
     jp |-> JpInNarration(turn), en |-> EnInDialogue(turn),
     tier_suggestion |-> turn.punsys_feedback.tier_suggestion,
     moves |-> turn.pc_move_suggestions,
     pre |-> pre, diskBefore |-> diskBefore,
     ok |-> ok, reason |-> reason, response |-> response]

NoTurn ==
    [narration_en |-> <<>>, dialogue_jp |-> <<>>,
     punsys_feedback |-> [pressure_hint |-> 0, tier_suggestion |-> 0],
     pc_move_suggestions |-> <<>>]

\* a thread: where it is, how many sections its save_state has written, and
\* where it goes once save_state returns
Thread(pc) == [pc |-> pc, pos |-> 0, ret |-> pc]

(***************************************************************************)
(* The HTTP front ends: gal/server.py (POST /play), gal/bridge.py and      *)
(* main.py (POST /vv/jobs).  Texts, anchors, header values and environment *)
(* variables are sequences of code points; identifiers and error codes,    *)
(* which are only compared, are strings.  An Optional value is a sequence  *)
(* of length 0 (None) or 1 (the value).                                    *)
(***************************************************************************)
None == <<>>
Some(x) == <<x>>

\* (x or ""), for an Optional string
OrEmpty(opt) == IF opt = None THEN <<>> ELSE opt[1]

\* bool(x) of an Optional string, list or dict
Truthy(opt) == opt # None /\ opt[1] # <<>>

\* str.isspace
IsSpace(c) ==
    \/ c \in {9, 10, 11, 12, 13, 28, 29, 30, 31, 32, 133, 160, 5760, 8232,
              8233, 8239, 8287, 12288}
    \/ (8192 <= c /\ c <= 8202)

RECURSIVE LStrip(_)
LStrip(s) == IF s # <<>> /\ IsSpace(Head(s)) THEN LStrip(Tail(s)) ELSE s

RECURSIVE RStrip(_)
RStrip(s) ==
    IF s # <<>> /\ IsSpace(s[Len(s)])
    THEN RStrip(SubSeq(s, 1, Len(s) - 1))
    ELSE s

\* str.strip()
Strip(s) == RStrip(LStrip(s))

\* "first_meet"
first_meet == <<102, 105, 114, 115, 116, 95, 109, 101, 101, 116>>

\* the values the environment may hold: "s3" and "V5"; <<>> is unset or empty
Secret == <<115, 51>>
Version == <<86, 53>>

(***************************************************************************)
(* gal/server.py: POST /play, and gal/bridge.py: post_scene.               *)
(* Code points: 32 space, 10 newline, 104 105 "hi", 114 "r", 99 "c".       *)
(***************************************************************************)
MaxPlays == 3     \* no /play call is taken once so many have been answered

PlayIn ==
    [text : { <<>>, <<32, 10>>, <<32, 104, 105>> },
     anchor : { None, Some(<<32>>), Some(<<114>>), Some(<<32, 99, 32>>) }]

\* mutant of Anchor: no fallback to the remembered anchor
AnchorNoFallback(payload, last_anchor) ==
    Strip(OrEmpty(payload.anchor))

\* server.py line 30: (payload.anchor or "").strip() or LAST_ANCHOR
Anchor(payload, last_anchor) ==
    LET given == Strip(OrEmpty(payload.anchor))
    IN  IF given # <<>> THEN given ELSE last_anchor

\* bridge.py lines 22-30: the job post_scene builds (its random job_id is
\* left out); anchor_hint is a key of params only when it is non-empty
post_scene(input_text, anchor_hint) ==
    [version |-> env.ENGINE_VERSION, session_id |-> "s_persist",
     job_type |-> "scene",
     params |-> [strict_lang |-> TRUE, input |-> input_text,
                 anchor_hint |-> IF anchor_hint # <<>> THEN Some(anchor_hint)
                                 ELSE None]]

\* bridge.py lines 10-11: _post refuses to send without secret and version
Configured == env.VV_SHARED_SECRET # <<>> /\ env.ENGINE_VERSION # <<>>

\* what the engine does with a job that was sent: it answers ok, it answers
\* ok = false (RuntimeError engine_error), or urlopen raises
BridgeOutcomes == {"ok", "engine_error", "URLError"}

\* one answered /play call
PlayCall(payload, status, built, sent, remembered) ==
    [payload |-> payload, status |-> status, built |-> built, sent |-> sent,
     remembered |-> remembered]

Play(payload, outcome) ==
    /\ Len(calls) < MaxPlays
    /\ LET text == Strip(payload.text)
       IN  IF text = <<>>
           THEN /\ calls' = Append(calls, PlayCall(payload, 400, None, FALSE,
                                                   LAST_ANCHOR))
                /\ UNCHANGED LAST_ANCHOR
           ELSE LET anchor == Anchor(payload, LAST_ANCHOR)
                    status == IF Configured /\ outcome = "ok" THEN 200 ELSE 502
                IN  /\ LAST_ANCHOR' = anchor
                    /\ calls' = Append(calls,
                                       PlayCall(payload, status,
                                                Some(post_scene(text, anchor)),
                                                Configured, anchor))
    /\ UNCHANGED <<env, job>>
    /\ UNCHANGED <<core, inbound>>

(***************************************************************************)
(* main.py: POST /vv/jobs.  Code points: "Bearer " is 66 101 97 114 101    *)
(* 114 32, "bad" is 98 97 100, "V4" is 86 52, "g" is 103.                  *)
(* The text of an artifact is a sequence of lines; a line is the set of    *)
(* the marks the format guards look for that occur in it: "Breakdown:",    *)
(* "Audit:", "Actions:", "Continuity:", "Status:", "Evidence:", "jp" (a    *)
(* quoted Japanese line, matching the pattern of line 172), "pair" (a      *)
(* line matching the pair pattern of line 174) and "blank".                *)
(***************************************************************************)
Bearer == <<66, 101, 97, 114, 101, 114, 32>>

JobTypes ==
    {"setup", "flashpoint_map", "scene", "subs", "audit", "continuity_check"}

\* BridgeJobParams with every field left out
NoParams ==
    [anchor_hint |-> None, goal |-> None, scene_ref |-> None,
     scene_text |-> None, answers |-> None, text |-> None,
     artifact_ref |-> None, history_refs |-> None, summary_text |-> None,
     setup_ref |-> None]

\* the params the model sends: nothing; an anchor; an empty anchor; an empty
\* answers dict; the second alternative of each job type; the first one
ParamSets ==
    { NoParams,
      [NoParams EXCEPT !.anchor_hint = Some(<<114>>)],
      [NoParams EXCEPT !.anchor_hint = Some(<<>>)],
      [NoParams EXCEPT !.answers = Some(<<>>)],
      [NoParams EXCEPT !.answers = Some(<<1>>), !.goal = Some(<<103>>),
                       !.scene_text = Some(<<103>>), !.text = Some(<<103>>),
                       !.summary_text = Some(<<103>>)],
      [NoParams EXCEPT !.setup_ref = Some(<<103>>),
                       !.scene_ref = Some(<<103>>),
                       !.artifact_ref = Some(<<103>>),
                       !.history_refs = Some(<<1>>)] }

\* the JSON objects the model sends; a key left out is None
Payloads ==
    [version : { None, Some(Version), Some(<<86, 52>>) },
     session_id : { Some("s1") }, job_id : { Some("j1") },
     job_type : { None } \cup { Some(t) : t \in JobTypes \cup {"bogus"} },
     params : ParamSets]
    \cup
    { [version |-> Some(Version), session_id |-> None, job_id |-> None,
       job_type |-> Some("scene"),
       params |-> [NoParams EXCEPT !.anchor_hint = Some(<<114>>)]] }

EmptyPayload ==
    [version |-> None, session_id |-> None, job_id |-> None,
     job_type |-> None, params |-> NoParams]

\* a request body: not JSON at all, JSON that is not an object (an array),
\* or a JSON object
Bodies ==
    { [kind |-> "invalid", payload |-> EmptyPayload],
      [kind |-> "array", payload |-> EmptyPayload] }
    \cup { [kind |-> "object", payload |-> p] : p \in Payloads }

JobHeaders ==
    { [authorization |-> None, x_shared_secret |-> None],
      [authorization |-> Some(Bearer \o Secret), x_shared_secret |-> None],
      [authorization |-> Some(<<98, 97, 100>>),
       x_shared_secret |-> Some(Secret)],
      [authorization |-> None, x_shared_secret |-> Some(Secret)] }

Requests == [headers : JobHeaders, body : Bodies]

\* line 336: authorization or x_shared_secret
Or(a, b) == IF Truthy(a) THEN a ELSE b

\* auth_check: the status of the HTTPException it raises, 0 when it returns
auth_check(header_secret) ==
    LET given == Strip(OrEmpty(header_secret))
        want == Strip(env.VV_SHARED_SECRET)
    IN  IF want = <<>> THEN 500
        ELSE IF given = <<>> THEN 401
        ELSE IF given # Bearer \o want /\ given # want THEN 403
        ELSE 0

\* BridgeJob(**payload) for a JSON object: "ok", or the error code lines
\* 344-368 derive from the ValidationError.  The version validator runs
\* whenever version is a string, whatever else is wrong with the payload.
BridgeJob(payload) ==
    IF payload.version # None /\ payload.version[1] # Strip(env.ENGINE_VERSION)
    THEN "version_error"
    ELSE IF \/ payload.version = None
            \/ payload.session_id = None
            \/ payload.job_id = None
            \/ payload.job_type = None
            \/ OrEmpty(payload.job_type) \notin JobTypes
         THEN "schema_error"
         ELSE "ok"

\* validate_minimal_inputs: the code of the BridgeError it returns, or None
validate_minimal_inputs(j) ==
    LET p == j.params
        unresolved ==
            CASE j.job_type = "setup" -> p.answers = None
              [] j.job_type = "flashpoint_map" ->
                    ~(Truthy(p.setup_ref) \/ Truthy(p.answers))
              [] j.job_type = "scene" ->
                    ~(Truthy(p.anchor_hint) \/ Truthy(p.goal)
                        \/ Truthy(p.scene_ref))
              [] j.job_type = "subs" ->
                    ~(Truthy(p.scene_ref) \/ Truthy(p.scene_text))
              [] j.job_type = "audit" ->
                    ~(Truthy(p.artifact_ref) \/ Truthy(p.text))
              [] j.job_type = "continuity_check" ->
                    ~(Truthy(p.history_refs) \/ Truthy(p.summary_text))
              [] OTHER -> FALSE
    IN  IF unresolved THEN Some("input_unresolved") ELSE None

\* the handlers' outcomes (lines 267-315)
JOB_HANDLERS ==
    [t \in JobTypes |->
        CASE t = "setup" ->
               [artifact_type |-> "setup_seed", content |-> <<{}>>]
          [] t = "flashpoint_map" ->
               [artifact_type |-> "flashpoint_map", content |-> <<{}>>]
          [] t = "scene" ->
               [artifact_type |-> "scene_block",
                content |-> << {}, {"jp"}, {"jp"}, {"blank"}, {"Breakdown:"},
                               {"jp", "pair"}, {"jp", "pair"} >>]
          [] t = "subs" ->
               [artifact_type |-> "subs_pairs",
                content |-> << {"Breakdown:"}, {"jp", "pair"},
                               {"jp", "pair"} >>]
          [] t = "audit" ->
               [artifact_type |-> "audit_report",
                content |-> << {"Audit:"}, {}, {}, {}, {}, {"Actions:"}, {} >>]
          [] t = "continuity_check" ->
               [artifact_type |-> "continuity_result",
                content |-> << {"Continuity:"}, {}, {"Status:"},
                               {"Evidence:", "Breakdown:"} >>]]

\* mark in text
In(mark, text) == \E i \in 1..Len(text) : mark \in text[i]

\* next((ln for ln in text.splitlines() if ln.strip()), "")
FirstLine(text) ==
    IF \E i \in 1..Len(text) : "blank" \notin text[i]
    THEN text[CHOOSE i \in 1..Len(text) :
                /\ "blank" \notin text[i]
                /\ \A k \in 1..(i - 1) : "blank" \in text[k]]
    ELSE {}

check_scene_format(text) ==
    /\ In("Breakdown:", text)
    /\ "jp" \notin FirstLine(text)
    /\ In("jp", text)
    /\ In("pair", text)

check_subs_format(text) ==
    /\ "Breakdown:" \in FirstLine(text)
    /\ In("pair", text)

check_audit_format(text) == In("Audit:", text) /\ In("Actions:", text)

check_continuity_format(text) ==
    In("Continuity:", text) /\ In("Status:", text) /\ In("Evidence:", text)

validate_artifact(job_type, text) ==
    CASE job_type = "scene" -> check_scene_format(text)
      [] job_type = "subs" -> check_subs_format(text)
      [] job_type = "audit" -> check_audit_format(text)
      [] job_type = "continuity_check" -> check_continuity_format(text)
      [] OTHER -> TRUE

\* the JSON body of a BridgeResult, with the status of the response
BridgeResult(status, ok, job_id, session_id, artifact_type, content, errors) ==
    [kind |-> "BridgeResult", status |-> status, ok |-> ok,
     job_id |-> job_id, session_id |-> session_id,
     artifact_type |-> artifact_type, content |-> content, errors |-> errors]

\* the response of the framework when vv_jobs itself raises: status 500,
\* the text "Internal Server Error", no BridgeResult
ServerError ==
    [kind |-> "InternalServerError", status |-> 500, ok |-> FALSE,
     job_id |-> "", session_id |-> "", artifact_type |-> "",
     content |-> <<>>, errors |-> <<>>]

\* payload.get(key, "unknown")
Get(opt) == IF opt = None THEN "unknown" ELSE opt[1]

\* the error responses built from the raw payload (lines 345-368, 418-449):
\* payload is {} when the body is not JSON; payload.get raises
\* AttributeError inside the except clause when payload is not a dict
ErrorResult(body, status, code) ==
    IF body.kind = "array"
    THEN ServerError
    ELSE BridgeResult(status, FALSE, Get(body.payload.job_id),
                      Get(body.payload.session_id), "", <<>>, <<code>>)

\* make_result(job, ok=False, errors=[...])
make_result(j, status, code) ==
    BridgeResult(status, FALSE, j.job_id, j.session_id, "", <<>>, <<code>>)

\* vv_jobs: the gates that ran, in order, and the response
vv_jobs(req) ==
    LET auth == auth_check(Or(req.headers.authorization,
                              req.headers.x_shared_secret))
        body == req.body
        chk == BridgeJob(body.payload)
        j == [job_id |-> OrEmpty(body.payload.job_id),
              session_id |-> OrEmpty(body.payload.session_id),
              job_type |-> OrEmpty(body.payload.job_type),
              params |-> body.payload.params]
        d15 == validate_minimal_inputs(j)
        outcome == JOB_HANDLERS[j.job_type]
    IN  IF auth # 0
        THEN [gates |-> <<"auth">>,
              resp |-> ErrorResult(body, auth,
                                   IF auth \in {401, 403} THEN "auth_error"
                                   ELSE "unknown")]
        ELSE IF body.kind = "invalid"
        THEN [gates |-> <<"auth">>, resp |-> ErrorResult(body, 500, "unknown")]
        ELSE IF body.kind = "array"
        THEN [gates |-> <<"auth", "schema">>, resp |-> ServerError]
        ELSE IF chk # "ok"
        THEN [gates |-> <<"auth", "schema">>,
              resp |-> ErrorResult(body, 400, chk)]
        ELSE IF d15 # None
        THEN [gates |-> <<"auth", "schema", "minimal">>,
              resp |-> make_result(j, 422, d15[1])]
        ELSE IF j.job_type \notin DOMAIN JOB_HANDLERS
        THEN [gates |-> <<"auth", "schema", "minimal">>,
              resp |-> make_result(j, 400, "schema_error")]
        ELSE IF ~validate_artifact(j.job_type, outcome.content)
        THEN [gates |-> <<"auth", "schema", "minimal", "handler", "format">>,
              resp |-> make_result(j, 422, "format_error")]
        ELSE [gates |-> <<"auth", "schema", "minimal", "handler", "format">>,
              resp |-> BridgeResult(200, TRUE, j.job_id, j.session_id,
                                    outcome.artifact_type, outcome.content,
                                    <<>>)]

\* no request answered yet
NoJob ==
    [req |-> [headers |-> [authorization |-> None, x_shared_secret |-> None],
              body |-> [kind |-> "invalid", payload |-> EmptyPayload]],
     gates |-> <<>>, resp |-> ServerError]

VvJobs(req) ==
    /\ job' = [req |-> req, gates |-> vv_jobs(req).gates,
               resp |-> vv_jobs(req).resp]
    /\ UNCHANGED <<env, LAST_ANCHOR, calls>>
    /\ UNCHANGED <<core, inbound>>

\* the front ends before their first request, with secret and version set
WebIdle ==
    /\ env = [VV_SHARED_SECRET |-> Secret, ENGINE_VERSION |-> Version]
    /\ LAST_ANCHOR = first_meet
    /\ calls = <<>>
    /\ job = NoJob

(***************************************************************************)
(* Initial states: state.json is absent or holds one of StoredDocs; no     *)
(* handle has been built.                                                  *)
(***************************************************************************)
Init ==
    /\ disk \in {NoFile} \cup {File(Serialize(d)) : d \in StoredDocs}
    /\ state = [h \in Handles |-> default_state]
    /\ wk = [h \in Handles |-> Thread("new")]
    /\ last = Call("none", "h1", NoTurn, default_state, disk, TRUE, Pass,
                   NoResponse)
    /\ hist = [succ |-> 0,
               beat0 |-> IF disk.exists THEN Parse(disk.data).scene.beat_idx
                         ELSE default_state.scene.beat_idx]
    /\ WebIdle
    /\ inbound = NoTurn

(***************************************************************************)
(* Spine.__init__ -> load_state (and save_state when the file is absent),  *)
(* run without interruption.                                               *)
(***************************************************************************)
\* mutant of Construct: the default document is not saved
ConstructNoSave(h) ==
    /\ wk[h].pc = "new"
    /\ IF ~disk.exists
       THEN /\ state' = [state EXCEPT ![h] = default_state]
            /\ wk' = [wk EXCEPT ![h] = Thread("ready")]
            /\ last' = Call("init", h, NoTurn, state[h], disk, TRUE, Pass,
                            NoResponse)
            /\ UNCHANGED disk
       ELSE /\ state' = [state EXCEPT ![h] = Parse(disk.data)]
            /\ wk' = [wk EXCEPT ![h] = Thread("ready")]
            /\ last' = Call("init", h, NoTurn, state[h], disk, TRUE, Pass,
                            NoResponse)
            /\ UNCHANGED disk
    /\ UNCHANGED hist
    /\ UNCHANGED <<web, inbound>>

Construct(h) ==
    /\ wk[h].pc = "new"
    /\ IF ~disk.exists
       THEN /\ state' = [state EXCEPT ![h] = default_state]
            /\ disk' = File(Serialize(default_state))
            /\ wk' = [wk EXCEPT ![h] = Thread("ready")]
            /\ last' = Call("init", h, NoTurn, state[h], disk, TRUE, Pass,
                            NoResponse)
       ELSE IF Parses(disk.data)
       THEN /\ state' = [state EXCEPT ![h] = Parse(disk.data)]
            /\ wk' = [wk EXCEPT ![h] = Thread("ready")]
            /\ last' = Call("init", h, NoTurn, state[h], disk, TRUE, Pass,
                            NoResponse)
            /\ UNCHANGED disk
       ELSE \* json.load raises: no handle comes into being
            /\ wk' = [wk EXCEPT ![h] = Thread("crashed")]
            /\ last' = Call("init", h, NoTurn, state[h], disk, FALSE,
                            "JSONDecodeError", NoResponse)
            /\ UNCHANGED <<state, disk>>
    /\ UNCHANGED hist
    /\ UNCHANGED <<web, inbound>>

(***************************************************************************)
(* Spine.process_turn, run without interruption and with a store that      *)
(* accepts the write.                                                      *)
(***************************************************************************)
ProcessTurn(h, turn) ==
    /\ wk[h].pc = "ready"
    /\ state[h].scene.beat_idx < MaxBeat
    /\ LET reason == Validate(state[h], turn)
       IN  IF reason # Pass
           THEN /\ last' = Call("turn", h, turn, state[h], disk, FALSE, reason,
                                NoResponse)
                /\ UNCHANGED <<state, disk, hist>>
           ELSE \E wave \in WaveSamples :
                  LET next == Advance(state[h], turn, wave)
                  IN  /\ state' = [state EXCEPT ![h] = next]
                      /\ disk' = File(Serialize(next))
                      /\ hist' = [hist EXCEPT !.succ = @ + 1]
                      /\ last' = Call("turn", h, turn, state[h], disk, TRUE,
                                      Pass, EngineTurn(next))
    /\ UNCHANGED wk
    /\ UNCHANGED <<web, inbound>>

Next ==
    \/ Construct("h1")
    \/ \E turn \in Turns : ProcessTurn("h1", turn)

Spec == Init /\ [][Next]_vars

(***************************************************************************)
(* A store that can refuse the write.  process_turn as in ProcessTurn,     *)
(* except that save_state (line 98) may raise: open() fails before it      *)
(* truncates (the file or directory is not writable), or the write stops   *)
(* after open() has truncated the file and k sections have reached it      *)
(* (disk full, I/O error, the process is killed).  self.state was mutated  *)
(* by lines 79-96 before save_state is called.                             *)
(***************************************************************************)
Prefix(seq, k) == [i \in 1..k |-> seq[i]]

StoreError == "OSError"

ProcessTurnFaulty(h, turn) ==
    /\ wk[h].pc = "ready"
    /\ state[h].scene.beat_idx < MaxFaultyBeat
    /\ LET reason == Validate(state[h], turn)
       IN  IF reason # Pass
           THEN /\ last' = Call("turn", h, turn, state[h], disk, FALSE, reason,
                                NoResponse)
                /\ UNCHANGED <<state, disk, hist>>
           ELSE \E wave \in WaveSamples :
                  LET next == Advance(state[h], turn, wave)
                  IN  /\ state' = [state EXCEPT ![h] = next]
                      /\ \/ /\ disk' = File(Serialize(next))
                            /\ hist' = [hist EXCEPT !.succ = @ + 1]
                            /\ last' = Call("turn", h, turn, state[h], disk,
                                            TRUE, Pass, EngineTurn(next))
                         \/ /\ UNCHANGED <<disk, hist>>
                            /\ last' = Call("turn", h, turn, state[h], disk,
                                            FALSE, StoreError, NoResponse)
                         \/ \E k \in 0..(NSections - 1) :
                              /\ disk' = File(Prefix(Serialize(next), k))
                              /\ UNCHANGED hist
                              /\ last' = Call("turn", h, turn, state[h], disk,
                                              FALSE, StoreError, NoResponse)
    /\ UNCHANGED wk
    /\ UNCHANGED <<web, inbound>>

\* the process is started again: the handle is dropped, a new one is built
Restart(h) ==
    /\ wk[h].pc \in {"crashed", "ready"}
    /\ wk' = [wk EXCEPT ![h] = Thread("new")]
    /\ UNCHANGED <<disk, state, last, hist>>
    /\ UNCHANGED <<web, inbound>>

NextFaulty ==
    \/ Construct("h1")
    \/ \E turn \in FewTurns : ProcessTurnFaulty("h1", turn)
    \/ Restart("h1")

SpecFaulty == Init /\ [][NextFaulty]_vars

(***************************************************************************)
(* Interleaved runs: two threads (or processes) serve requests against the *)
(* same state.json.  Each request builds its handle (load_state), runs     *)
(* process_turn on it and saves; the code takes no lock, so the steps of   *)
(* the two requests interleave at every file operation.  save_state is     *)
(* open(..., "w"), which truncates, then the writes of json.dump, each at  *)
(* the writer's own file offset.                                           *)
(***************************************************************************)
\* a write of one section at offset pos of the file; a gap left by a
\* truncation under the writer reads as Nul
WriteAt(data, pos, tok) ==
    [i \in 1..Max(Len(data), pos) |->
        IF i = pos THEN tok ELSE IF i <= Len(data) THEN data[i] ELSE Nul]

\* Spine.__init__ -> load_state, up to the call of save_state
Load(h) ==
    /\ wk[h].pc = "new"
    /\ IF ~disk.exists
       THEN /\ state' = [state EXCEPT ![h] = default_state]
            /\ wk' = [wk EXCEPT ![h] = [pc |-> "save_open", pos |-> 0,
                                        ret |-> "ready"]]
       ELSE IF Parses(disk.data)
       THEN /\ state' = [state EXCEPT ![h] = Parse(disk.data)]
            /\ wk' = [wk EXCEPT ![h] = Thread("ready")]
       ELSE \* json.load raises on the empty or truncated file
            /\ wk' = [wk EXCEPT ![h] = Thread("crashed")]
            /\ UNCHANGED state
    /\ UNCHANGED <<disk, last, hist>>
    /\ UNCHANGED <<web, inbound>>

\* process_turn, lines 65-96: validation and the mutation of self.state
Begin(h, turn) ==
    /\ wk[h].pc = "ready"
    /\ hist.succ < MaxConcTurns
    /\ IF Validate(state[h], turn) # Pass
       THEN /\ wk' = [wk EXCEPT ![h] = Thread("new")]
            /\ UNCHANGED state
       ELSE \E wave \in WaveSamples :
              /\ state' = [state EXCEPT ![h] = Advance(state[h], turn, wave)]
              /\ wk' = [wk EXCEPT ![h] = [pc |-> "save_open", pos |-> 0,
                                          ret |-> "new"]]
    /\ UNCHANGED <<disk, last, hist>>
    /\ UNCHANGED <<web, inbound>>

\* save_state, line 21: open(self.state_file, "w") creates or truncates
SaveOpen(h) ==
    /\ wk[h].pc = "save_open"
    /\ disk' = File(<<>>)
    /\ wk' = [wk EXCEPT ![h].pc = "save_write", ![h].pos = 0]
    /\ UNCHANGED <<state, last, hist>>
    /\ UNCHANGED <<web, inbound>>

\* save_state, line 22: json.dump writes the next section; after the last
\* one the file is closed and the caller goes on (a turn has then succeeded)
SaveWrite(h) ==
    /\ wk[h].pc = "save_write"
    /\ LET k == wk[h].pos + 1
       IN  /\ disk' = File(WriteAt(disk.data, k, Serialize(state[h])[k]))
           /\ IF k < NSections
              THEN /\ wk' = [wk EXCEPT ![h].pos = k]
                   /\ UNCHANGED hist
              ELSE /\ wk' = [wk EXCEPT ![h] = Thread(wk[h].ret)]
                   /\ hist' = [hist EXCEPT
                                 !.succ = IF wk[h].ret = "new" THEN @ + 1 ELSE @]
    /\ UNCHANGED <<state, last>>
    /\ UNCHANGED <<web, inbound>>

\* the request whose load failed has ended; the thread serves the next one
Retry(h) ==
    /\ wk[h].pc = "crashed"
    /\ wk' = [wk EXCEPT ![h] = Thread("new")]
    /\ UNCHANGED <<disk, state, last, hist>>
    /\ UNCHANGED <<web, inbound>>

NextConc ==
    \E h \in Handles :
        \/ Load(h)
        \/ \E turn \in FewTurns : Begin(h, turn)
        \/ SaveOpen(h)
        \/ SaveWrite(h)
        \/ Retry(h)

SpecConc == Init /\ [][NextConc]_vars

(***************************************************************************)
(* Turns and documents of the wrong shape.  process_turn takes whatever    *)
(* object it is handed and subscripts it, and load_state takes whatever    *)
(* document state.json holds: a move suggestion may lack its "label" key   *)
(* (KeyError at line 80) and the roster may be empty (IndexError at line   *)
(* 81).  Both are raised after line 79 has incremented beat_idx in         *)
(* self.state; the IndexError also after line 80 has set last_move.        *)
(***************************************************************************)
MaxMalformedBeat == 3   \* no turn is started once beat_idx has reached it

EmptyRoster == [default_state EXCEPT !.npcs = <<>>]

MalformedTurns ==
    [narration_en : {<<81, 46>>},
     dialogue_jp : { <<JpLine>>, <<[speaker |-> "Aiko", line |-> <<67>>]>> },
     punsys_feedback : [pressure_hint : {500}, tier_suggestion : {1}],
     pc_move_suggestions :
        { <<>>, <<[id |-> "m1", label |-> "wait"]>>, <<[id |-> "m3"]>> }]

InitMalformed ==
    /\ disk \in {File(Serialize(d)) : d \in StoredDocs \cup {EmptyRoster}}
    /\ state = [h \in Handles |-> default_state]
    /\ wk = [h \in Handles |-> Thread("new")]
    /\ last = Call("none", "h1", NoTurn, default_state, disk, TRUE, Pass,
                   NoResponse)
    /\ hist = [succ |-> 0, beat0 |-> Parse(disk.data).scene.beat_idx]
    /\ WebIdle
    /\ inbound = NoTurn

ProcessTurnMalformed(h, turn) ==
    /\ wk[h].pc = "ready"
    /\ state[h].scene.beat_idx < MaxMalformedBeat
    /\ LET reason == Validate(state[h], turn)
           moves == turn.pc_move_suggestions
           \* line 79
           s1 == [state[h] EXCEPT !.scene.beat_idx = @ + 1]
           \* line 80
           s2 == [s1 EXCEPT !.pc.last_move = FirstLabel(turn)]
       IN  IF reason # Pass
           THEN /\ last' = Call("turn", h, turn, state[h], disk, FALSE, reason,
                                NoResponse)
                /\ UNCHANGED <<state, disk, hist>>
           ELSE IF Len(moves) > 0 /\ "label" \notin DOMAIN moves[1]
           THEN /\ state' = [state EXCEPT ![h] = s1]
                /\ last' = Call("turn", h, turn, state[h], disk, FALSE,
                                "KeyError", NoResponse)
                /\ UNCHANGED <<disk, hist>>
           ELSE IF Len(state[h].npcs) = 0
           THEN /\ state' = [state EXCEPT ![h] = s2]
                /\ last' = Call("turn", h, turn, state[h], disk, FALSE,
                                "IndexError", NoResponse)
                /\ UNCHANGED <<disk, hist>>
           ELSE \E wave \in WaveSamples :
                  LET next == Advance(state[h], turn, wave)
                  IN  /\ state' = [state EXCEPT ![h] = next]
                      /\ disk' = File(Serialize(next))
                      /\ hist' = [hist EXCEPT !.succ = @ + 1]
                      /\ last' = Call("turn", h, turn, state[h], disk, TRUE,
                                      Pass, EngineTurn(next))
    /\ UNCHANGED wk
    /\ UNCHANGED <<web, inbound>>

NextMalformed ==
    \/ Construct("h1")
    \/ \E turn \in MalformedTurns : ProcessTurnMalformed("h1", turn)

SpecMalformed == InitMalformed /\ [][NextMalformed]_vars

(***************************************************************************)
(* Two handles on the same state.json, their calls strictly one after      *)
(* another.  A handle loads the document once, in __init__; process_turn   *)
(* works on self.state and does not read the file.                         *)
(***************************************************************************)
MaxTwoTurns == 4   \* no turn is started after so many successful ones

TurnOfTwo(h, turn) ==
    /\ hist.succ < MaxTwoTurns
    /\ ProcessTurn(h, turn)

NextTwo ==
    \E h \in Handles :
        \/ Construct(h)
        \/ \E turn \in FewTurns : TurnOfTwo(h, turn)

SpecTwo == Init /\ [][NextTwo]_vars

(***************************************************************************)
(* The front ends on their own: the spine is not touched by either.        *)
(***************************************************************************)
CoreIdle ==
    /\ disk = NoFile
    /\ state = [h \in Handles |-> default_state]
    /\ wk = [h \in Handles |-> Thread("new")]
    /\ last = Call("none", "h1", NoTurn, default_state, NoFile, TRUE, Pass,
                   NoResponse)
    /\ hist = [succ |-> 0, beat0 |-> 0]

\* the environments a server may be started in
Envs ==
    { [VV_SHARED_SECRET |-> Secret, ENGINE_VERSION |-> Version],
      [VV_SHARED_SECRET |-> <<>>, ENGINE_VERSION |-> Version],
      [VV_SHARED_SECRET |-> <<32>> \o Secret, ENGINE_VERSION |-> <<>>] }

InitWeb ==
    /\ CoreIdle
    /\ env \in Envs
    /\ LAST_ANCHOR = first_meet
    /\ calls = <<>>
    /\ job = NoJob
    /\ inbound = NoTurn

NextPlay ==
    \E payload \in PlayIn, outcome \in BridgeOutcomes : Play(payload, outcome)

SpecPlay == InitWeb /\ [][NextPlay]_vars

NextJobs == \E req \in Requests : VvJobs(req)

SpecJobs == InitWeb /\ [][NextJobs]_vars

(***************************************************************************)
(* Long runs of one handle: turns are taken up to beat MaxLiveBeat, and a  *)
(* turn that passes the checks is eventually processed whenever one can    *)
(* be (the caller keeps sending valid turns; rejected ones may come in     *)
(* between, in any number).                                                *)
(***************************************************************************)
MaxLiveBeat == 60   \* no turn is started once beat_idx has reached it

\* stored documents with the flashpoint armed, among them the slowest one:
\* rv and pv 0.0, threshold 1.0, cooldown_left 3
LiveDocs ==
    { d \in StoredDocs : d.flashpoint.armed }
    \cup { WithFp(WithNpc0(default_state, 0, 0), TRUE, 1000, 3),
           WithFp(WithNpc0(default_state, 1000, 1000), TRUE, 0, 0) }

\* two turns that pass (without and with a move) and one that is rejected
LiveTurns ==
    { t \in FewTurns :
        t.pc_move_suggestions = <<>> \/ t.dialogue_jp = <<JpLine>> }

InitLive ==
    /\ disk \in {NoFile} \cup {File(Serialize(d)) : d \in LiveDocs}
    /\ state = [h \in Handles |-> default_state]
    /\ wk = [h \in Handles |-> Thread("new")]
    /\ last = Call("none", "h1", NoTurn, default_state, disk, TRUE, Pass,
                   NoResponse)
    /\ hist = [succ |-> 0,
               beat0 |-> IF disk.exists THEN Parse(disk.data).scene.beat_idx
                         ELSE default_state.scene.beat_idx]
    /\ WebIdle
    /\ inbound = NoTurn

\* process_turn as in ProcessTurn, with the cap of the long runs
ProcessTurnLive(h, turn) ==
    /\ wk[h].pc = "ready"
    /\ state[h].scene.beat_idx < MaxLiveBeat
    /\ LET reason == Validate(state[h], turn)
       IN  IF reason # Pass
           THEN /\ last' = Call("turn", h, turn, state[h], disk, FALSE, reason,
                                NoResponse)
                /\ UNCHANGED <<state, disk, hist>>
           ELSE \E wave \in WaveSamples :
                  LET next == Advance(state[h], turn, wave)
                  IN  /\ state' = [state EXCEPT ![h] = next]
                      /\ disk' = File(Serialize(next))
                      /\ hist' = [hist EXCEPT !.succ = @ + 1]
                      /\ last' = Call("turn", h, turn, state[h], disk, TRUE,
                                      Pass, EngineTurn(next))
    /\ UNCHANGED wk
    /\ UNCHANGED <<web, inbound>>

\* a turn that passes the checks is processed
AcceptedTurn ==
    \E turn \in LiveTurns :
        /\ Validate(state["h1"], turn) = Pass
        /\ ProcessTurnLive("h1", turn)

NextLive ==
    \/ Construct("h1")
    \/ \E turn \in LiveTurns : ProcessTurnLive("h1", turn)

SpecLive == InitLive /\ [][NextLive]_vars /\ WF_vars(AcceptedTurn)

(***************************************************************************)
(* Turns with every field of schema.NarrativeTurn.  process_turn reads     *)
(* narration_en, the line of each dialogue_jp entry, tier_suggestion and   *)
(* the label of the first move suggestion (lines 65, 66, 75, 80).          *)
(***************************************************************************)
MaxHintBeat == 3   \* no turn is started once beat_idx has reached it

\* the fields process_turn does not read: in agreement with the default
\* scene, naming another scene, naming another beat, and all different
TurnHints ==
    { [scene_id |-> "S-001", beat_idx |-> 0, markers |-> <<>>,
       pressure_hint |-> 500,
       flashpoint_hint |-> [prime_level |-> 0, ready_to_trigger |-> FALSE],
       post_scene_breakdown |-> [translations |-> <<>>, vocab |-> <<>>]],
      [scene_id |-> "S-999", beat_idx |-> 0, markers |-> <<>>,
       pressure_hint |-> 500,
       flashpoint_hint |-> [prime_level |-> 0, ready_to_trigger |-> FALSE],
       post_scene_breakdown |-> [translations |-> <<>>, vocab |-> <<>>]],
      [scene_id |-> "S-001", beat_idx |-> 7, markers |-> <<>>,
       pressure_hint |-> 500,
       flashpoint_hint |-> [prime_level |-> 0, ready_to_trigger |-> FALSE],
       post_scene_breakdown |-> [translations |-> <<>>, vocab |-> <<>>]],
      [scene_id |-> "S-999", beat_idx |-> 7,
       markers |-> <<[speaker |-> "Aiko", trait |-> "witty",
                      quirk |-> "tease", tone |-> "dry"]>>,
       pressure_hint |-> 1000,
       flashpoint_hint |-> [prime_level |-> 1000, ready_to_trigger |-> TRUE],
       post_scene_breakdown |-> [translations |-> <<>>,
                                 vocab |-> <<"ochitsuite">>]] }

\* what process_turn reads: a Japanese line by either speaker and a Latin
\* one; tier 1 and 5; one move, and a move of the same label before another
HintedTurns ==
    { [scene_id |-> x.scene_id, beat_idx |-> x.beat_idx,
       narration_en |-> n, dialogue_jp |-> d, markers |-> x.markers,
       pc_move_suggestions |-> m,
       punsys_feedback |-> [pressure_hint |-> x.pressure_hint,
                            tier_suggestion |-> t],
       flashpoint_hint |-> x.flashpoint_hint,
       post_scene_breakdown |-> x.post_scene_breakdown] :
      x \in TurnHints, n \in { <<81, 46>> },
      d \in { <<JpLine>>, <<[JpLine EXCEPT !.speaker = "Rin"]>>,
              <<[speaker |-> "Aiko", line |-> <<67>>]>> },
      t \in {1, 5},
      m \in { <<[id |-> "m1", label |-> "wait"]>>,
              <<[id |-> "m9", label |-> "wait"],
                [id |-> "m2", label |-> "tease"]>> } }

\* process_turn as in ProcessTurn, handed a turn with every field
ProcessTurnHinted(h, turn) ==
    /\ wk[h].pc = "ready"
    /\ state[h].scene.beat_idx < MaxHintBeat
    /\ inbound' = turn
    /\ LET reason == Validate(state[h], turn)
       IN  IF reason # Pass
           THEN /\ last' = Call("turn", h, turn, state[h], disk, FALSE, reason,
                                NoResponse)
                /\ UNCHANGED <<state, disk, hist>>
           ELSE \E wave \in WaveSamples :
                  LET next == Advance(state[h], turn, wave)
                  IN  /\ state' = [state EXCEPT ![h] = next]
                      /\ disk' = File(Serialize(next))
                      /\ hist' = [hist EXCEPT !.succ = @ + 1]
                      /\ last' = Call("turn", h, turn, state[h], disk, TRUE,
                                      Pass, EngineTurn(next))
    /\ UNCHANGED wk
    /\ UNCHANGED web

NextHinted ==
    \/ Construct("h1")
    \/ \E turn \in HintedTurns : ProcessTurnHinted("h1", turn)

SpecHinted == Init /\ [][NextHinted]_vars

(***************************************************************************)
(* Properties of the uninterrupted runs (Spec).                            *)
(***************************************************************************)
H == "h1"
Cur == state[H]
Persisted == Parse(disk.data)
WasTurn == last.op = "turn"
TierOver == last.tier_suggestion > last.pre.punsys.tier
Violates == last.jp \/ last.en \/ TierOver

\* C1: a turn that violates a validation rule (Japanese-script character in
\* the narration, Latin letter in a dialogue line, tier_suggestion above the
\* stored tier) fails, and state.json after the call is identical to
\* state.json before the call.
C1_RejectedTurnKeepsDocument ==
    (WasTurn /\ Violates) => (~last.ok /\ disk = last.diskBefore)

C1_Witness ==
    /\ WasTurn /\ last.en /\ ~last.jp /\ ~TierOver
    /\ ~last.ok
    /\ hist.succ > 0
    /\ disk = last.diskBefore
    /\ Persisted.scene.beat_idx = hist.beat0 + hist.succ

\* C2: a turn that passes the three validation rules succeeds and leaves
\* scene.beat_idx exactly 1 greater than before the call; no turn, accepted
\* or rejected, decreases beat_idx, in memory or in state.json.
C2_ValidTurnAdvancesBeat ==
    WasTurn =>
        /\ ~Violates =>
              (last.ok /\ Cur.scene.beat_idx = last.pre.scene.beat_idx + 1)
        /\ Cur.scene.beat_idx >= last.pre.scene.beat_idx
        /\ Persisted.scene.beat_idx >= Parse(last.diskBefore.data).scene.beat_idx

C2_Witness ==
    /\ WasTurn /\ ~Violates /\ last.ok
    /\ last.pre.scene.beat_idx = 4
    /\ Cur.scene.beat_idx = 5
    /\ Persisted.scene.beat_idx = 5

\* C3: a turn whose tier_suggestion is greater than the stored punsys.tier is
\* rejected with no field of the state changed, in memory or in state.json;
\* a turn whose tier_suggestion is at most the stored tier (equal included)
\* is not rejected by the tier rule.
C3_TierRule ==
    WasTurn =>
        /\ TierOver => (~last.ok /\ Cur = last.pre /\ disk = last.diskBefore)
        /\ ~TierOver => last.reason # ReasonTier

C3_Witness ==
    /\ WasTurn /\ ~last.jp /\ ~last.en
    /\ last.tier_suggestion = 5 /\ last.pre.punsys.tier = 2
    /\ ~last.ok /\ last.reason = ReasonTier
    /\ Cur = last.pre
    /\ hist.succ > 0

\* C4 as stated: the failure reason is exactly "script leakage in narration"
\* when the narration contains a Japanese-script character, exactly
\* "script leakage in dialogue" when a dialogue line contains a Latin letter,
\* and exactly "tier exceeded" when the proposed tier exceeds the stored tier.
C4_ReasonsAsStated ==
    WasTurn =>
        /\ last.jp => last.reason = "script leakage in narration"
        /\ last.en => last.reason = "script leakage in dialogue"
        /\ TierOver => last.reason = "tier exceeded"

\* C4 amended: the failure reason is exactly "JP detected in narration" when
\* the narration contains a Japanese-script character; otherwise exactly
\* "EN detected in dialogue" when a dialogue line contains a Latin letter;
\* otherwise exactly "Tier exceeded" when the proposed tier exceeds the
\* stored tier; a turn that violates no rule has no failure reason.
C4_Reasons ==
    WasTurn =>
        /\ last.jp => (~last.ok /\ last.reason = "JP detected in narration")
        /\ (~last.jp /\ last.en) =>
              (~last.ok /\ last.reason = "EN detected in dialogue")
        /\ (~last.jp /\ ~last.en /\ TierOver) =>
              (~last.ok /\ last.reason = "Tier exceeded")
        /\ ~Violates => (last.ok /\ last.reason = "")

C4_Witness ==
    /\ WasTurn /\ last.jp /\ last.en /\ TierOver
    /\ ~last.ok
    /\ last.reason = "JP detected in narration"

\* C5: the first NPC's rv and pv stay within [0,1]; a successful turn raises
\* rv by exactly 0.02 and pv by exactly 0.03 unless that would exceed 1.0, in
\* which case the value becomes exactly 1.0 (and so stays at 1.0); no turn
\* decreases either value.  (Thousandths: 20, 30, 1000.)
C5_RvPvClamped ==
    wk[H].pc = "ready" =>
        LET npc == Cur.npcs[1]
            old == last.pre.npcs[1]
        IN  /\ 0 <= npc.rv /\ npc.rv <= 1000
            /\ 0 <= npc.pv /\ npc.pv <= 1000
            /\ (WasTurn /\ last.ok) =>
                  /\ npc.rv = IF old.rv + 20 > 1000 THEN 1000 ELSE old.rv + 20
                  /\ npc.pv = IF old.pv + 30 > 1000 THEN 1000 ELSE old.pv + 30
            /\ (WasTurn /\ ~last.ok) => (npc.rv = old.rv /\ npc.pv = old.pv)
            /\ WasTurn => (npc.rv >= old.rv /\ npc.pv >= old.pv)

\* a turn that clamps (0.99 + 0.02), and a turn that starts at 1.0
C5_Witness ==
    /\ WasTurn /\ last.ok
    /\ last.pre.npcs[1].rv = 1000 /\ last.pre.npcs[1].pv = 1000
    /\ Cur.npcs[1].rv = 1000 /\ Cur.npcs[1].pv = 1000
    /\ hist.succ = 2

\* C6: flashpoint.armed changes from true to false in a turn only if
\* cooldown_left was 0 at the start of the turn and the average of the first
\* NPC's just-updated rv and pv is at least threshold; whenever both hold
\* with armed true in a successful turn, armed becomes false in that turn and
\* cooldown_left is set to exactly 5.
C6_FlashpointDischarge ==
    WasTurn =>
        LET old == last.pre.flashpoint
            new == Cur.flashpoint
            npc == Cur.npcs[1]
            reached == npc.rv + npc.pv >= 2 * old.threshold
        IN  /\ (old.armed /\ ~new.armed) =>
                  (last.ok /\ old.cooldown_left = 0 /\ reached)
            /\ (last.ok /\ old.armed /\ old.cooldown_left = 0 /\ reached) =>
                  (~new.armed /\ new.cooldown_left = 5)

\* the default document discharges in its 8th turn, at exactly the threshold
C6_Witness ==
    /\ WasTurn /\ last.ok
    /\ last.pre.flashpoint.armed /\ last.pre.flashpoint.cooldown_left = 0
    /\ ~Cur.flashpoint.armed /\ Cur.flashpoint.cooldown_left = 5
    /\ Cur.npcs[1].rv = 760 /\ Cur.npcs[1].pv = 640
    /\ Cur.flashpoint.threshold = 700
    /\ hist.succ = 8

\* C7: a successful turn that starts with cooldown_left > 0 decreases
\* cooldown_left by exactly 1 and leaves armed unchanged, even if the average
\* pressure is at or above threshold; cooldown_left never becomes negative; a
\* rejected turn does not change it.
C7_Cooldown ==
    wk[H].pc = "ready" =>
        LET old == last.pre.flashpoint
            new == Cur.flashpoint
        IN  /\ new.cooldown_left >= 0
            /\ (WasTurn /\ last.ok /\ old.cooldown_left > 0) =>
                  /\ new.cooldown_left = old.cooldown_left - 1
                  /\ new.armed = old.armed
            /\ (WasTurn /\ ~last.ok) => new.cooldown_left = old.cooldown_left

\* cooldown 1 -> 0 with the average at the threshold: armed stays true
C7_Witness ==
    /\ WasTurn /\ last.ok
    /\ last.pre.flashpoint.cooldown_left = 1
    /\ Cur.flashpoint.cooldown_left = 0
    /\ Cur.flashpoint.armed
    /\ Cur.npcs[1].rv + Cur.npcs[1].pv >= 2 * Cur.flashpoint.threshold

\* C11: loading when state.json does not exist creates the hardcoded default
\* document (beat_idx 0, tier 2, first NPC rv 0.6 / pv 0.4, flashpoint armed
\* with threshold 0.7 and cooldown_left 2) and persists it; loading when a
\* document exists returns that document and leaves state.json unchanged.
C11_LoadCreatesOrReturns ==
    (last.op = "init" /\ wk[last.h].pc = "ready") =>
        IF ~last.diskBefore.exists
        THEN /\ state[last.h].scene.beat_idx = 0
             /\ state[last.h].punsys.tier = 2
             /\ Len(state[last.h].npcs) = 1
             /\ state[last.h].npcs[1].rv = 600
             /\ state[last.h].npcs[1].pv = 400
             /\ state[last.h].flashpoint.armed
             /\ state[last.h].flashpoint.threshold = 700
             /\ state[last.h].flashpoint.cooldown_left = 2
             /\ disk.exists /\ Parses(disk.data)
             /\ Persisted = state[last.h]
        ELSE /\ Parses(last.diskBefore.data)
             /\ state[last.h] = Parse(last.diskBefore.data)
             /\ disk = last.diskBefore

C11_Witness ==
    /\ last.op = "init" /\ last.ok
    /\ ~last.diskBefore.exists
    /\ disk.exists
    /\ Persisted = default_state
    /\ Cur = default_state

\* C12: the response of every successful turn carries the complete
\* post-transition state: its scene, pc, punsys and flashpoint sections equal
\* the document just persisted, and its npcs list contains every NPC of the
\* persisted roster (same length, same order, same values), also when the
\* roster has more than one NPC.
C12_ResponseCarriesState ==
    (WasTurn /\ last.ok) =>
        /\ last.response.scene = Persisted.scene
        /\ last.response.pc = Persisted.pc
        /\ last.response.punsys = Persisted.punsys
        /\ last.response.flashpoint = Persisted.flashpoint
        /\ Len(last.response.npcs) = Len(Persisted.npcs)
        /\ last.response.npcs = Persisted.npcs

\* C13: processing the same validated turn from two identical states yields
\* next states that agree on every field except punsys.wave: whatever wave
\* is drawn, beat_idx, last_move, rv, pv, armed and cooldown_left (and every
\* other field) come out the same, both for every turn that could be
\* processed next and for the turn that was processed last.
NoWave(st) == [st EXCEPT !.punsys.wave = <<>>]
LastTurn == [NoTurn EXCEPT !.pc_move_suggestions = last.moves,
                           !.punsys_feedback.tier_suggestion = last.tier_suggestion]

C13_DeterministicButWave ==
    wk[H].pc = "ready" =>
        /\ \A turn \in Turns :
              Validate(Cur, turn) = Pass =>
                  \A w1, w2 \in WaveSamples :
                      NoWave(Advance(Cur, turn, w1)) = NoWave(Advance(Cur, turn, w2))
        /\ (WasTurn /\ last.ok) =>
              \A w \in WaveSamples :
                  NoWave(Cur) = NoWave(Advance(last.pre, LastTurn, w))

\* the same turn from the same document, once with each wave
C13_Witness ==
    /\ WasTurn /\ last.ok
    /\ hist.succ >= 2
    /\ Cur.punsys.wave # last.pre.punsys.wave
    /\ last.pre.punsys.wave \in WaveSamples
    /\ ~Cur.flashpoint.armed /\ last.pre.flashpoint.armed

\* C14: after any successful turn punsys.wave has exactly 4 entries, each a
\* two-decimal value between 0.2 and 0.7 inclusive; a rejected turn leaves
\* the wave unchanged, in memory and in state.json.
C14_WaveResampled ==
    WasTurn =>
        /\ last.ok =>
              /\ Len(Cur.punsys.wave) = 4
              /\ \A i \in 1..Len(Cur.punsys.wave) :
                    /\ 200 <= Cur.punsys.wave[i] /\ Cur.punsys.wave[i] <= 700
                    /\ Cur.punsys.wave[i] % 10 = 0
              /\ Persisted.punsys.wave = Cur.punsys.wave
        /\ ~last.ok =>
              /\ Cur.punsys.wave = last.pre.punsys.wave
              /\ Persisted.punsys.wave = Parse(last.diskBefore.data).punsys.wave

\* a draw just below 1 rounds up to the upper end 0.7
C14_Witness ==
    /\ WasTurn /\ last.ok
    /\ last.pre.punsys.wave = <<200, 400, 550, 350>>
    /\ Cur.punsys.wave = <<700, 450, 210, 330>>

\* C16: from the default state (beat_idx 0, tier 2, first NPC rv 0.6 /
\* pv 0.4, threshold 0.7, cooldown_left 2, armed), one turn with a narration
\* free of Japanese script, a dialogue free of Latin letters and
\* tier_suggestion 1 succeeds and results in beat_idx = 1, cooldown_left = 1
\* and armed = true.
FromDefault ==
    /\ last.pre.scene.beat_idx = 0
    /\ last.pre.punsys.tier = 2
    /\ Len(last.pre.npcs) = 1
    /\ last.pre.npcs[1].rv = 600 /\ last.pre.npcs[1].pv = 400
    /\ last.pre.flashpoint.armed
    /\ last.pre.flashpoint.threshold = 700
    /\ last.pre.flashpoint.cooldown_left = 2

C16_DefaultScenario ==
    (WasTurn /\ FromDefault /\ ~last.jp /\ ~last.en /\ last.tier_suggestion = 1) =>
        /\ last.ok
        /\ Cur.scene.beat_idx = 1
        /\ Cur.flashpoint.cooldown_left = 1
        /\ Cur.flashpoint.armed
        /\ Persisted = Cur

C16_Witness ==
    /\ WasTurn /\ FromDefault
    /\ ~last.jp /\ ~last.en /\ last.tier_suggestion = 1
    /\ last.ok
    /\ Persisted.scene.beat_idx = 1
    /\ Persisted.flashpoint.cooldown_left = 1
    /\ Persisted.flashpoint.armed
    /\ Persisted.npcs[1].rv = 620 /\ Persisted.npcs[1].pv = 430

\* C17: validation stops at the first failing rule: a rejected turn has
\* exactly one reason, that of the first failing rule in the order narration
\* check, dialogue check, tier check, also when it violates several rules;
\* whether a turn is accepted or rejected is the same for every order in
\* which the three rules could be evaluated.
RuleFails(rule) ==
    IF rule = "narration" THEN last.jp
    ELSE IF rule = "dialogue" THEN last.en
    ELSE TierOver

RuleOrders ==
    { o \in [1..3 -> {"narration", "dialogue", "tier"}] :
        \A i, j \in 1..3 : i # j => o[i] # o[j] }

\* the rule at which an evaluation in the given order stops
FirstFailing(o) ==
    IF RuleFails(o[1]) THEN o[1]
    ELSE IF RuleFails(o[2]) THEN o[2]
    ELSE IF RuleFails(o[3]) THEN o[3]
    ELSE "none"

ReasonOfRule(rule) ==
    IF rule = "narration" THEN ReasonJp
    ELSE IF rule = "dialogue" THEN ReasonEn
    ELSE IF rule = "tier" THEN ReasonTier
    ELSE Pass

C17_ShortCircuit ==
    WasTurn =>
        /\ last.reason =
              ReasonOfRule(FirstFailing(<<"narration", "dialogue", "tier">>))
        /\ \A o \in RuleOrders : (FirstFailing(o) = "none") <=> last.ok
        /\ ~last.ok => (Cur = last.pre /\ disk = last.diskBefore)

\* two rules violated, the first of them in the code's order is reported
C17_Witness ==
    /\ WasTurn /\ ~last.jp /\ last.en /\ TierOver
    /\ ~last.ok
    /\ last.reason = ReasonEn
    /\ Cur = last.pre

\* C19: after a successful turn pc.last_move equals the label of the first
\* move suggestion of that turn when at least one was supplied, and the empty
\* string when none was supplied (overwriting any earlier value); a turn with
\* zero suggestions never fails for that reason.
C19_LastMove ==
    WasTurn =>
        /\ (last.ok /\ Len(last.moves) > 0) =>
              /\ Cur.pc.last_move = last.moves[1].label
              /\ Persisted.pc.last_move = last.moves[1].label
        /\ (last.ok /\ Len(last.moves) = 0) =>
              /\ Cur.pc.last_move = ""
              /\ Persisted.pc.last_move = ""
        /\ (Len(last.moves) = 0 /\ ~Violates) => last.ok

\* an earlier label is cleared by a turn without suggestions
C19_Witness ==
    /\ WasTurn /\ last.ok
    /\ Len(last.moves) = 0
    /\ last.pre.pc.last_move = "tease"
    /\ Cur.pc.last_move = ""

\* C20: only the NPC at index 0 of the roster is updated by a turn: the
\* roster keeps its length, every NPC at index 1 or higher is unchanged by
\* any sequence of turns, and the flashpoint's average pressure is computed
\* from the index-0 NPC alone (with cooldown 0 and armed true, the flashpoint
\* discharges exactly when the index-0 NPC's average reaches the threshold).
C20_OnlyFirstNpc ==
    (wk[H].pc = "ready" /\ disk.exists) =>
        /\ Len(Cur.npcs) = Len(Persisted.npcs)
        /\ \A i \in 2..Len(Cur.npcs) : Cur.npcs[i] = Rin /\ Persisted.npcs[i] = Rin
        /\ WasTurn =>
              /\ Len(Cur.npcs) = Len(last.pre.npcs)
              /\ \A i \in 2..Len(Cur.npcs) : Cur.npcs[i] = last.pre.npcs[i]
              /\ (last.ok /\ last.pre.flashpoint.armed
                    /\ last.pre.flashpoint.cooldown_left = 0) =>
                    (~Cur.flashpoint.armed <=>
                        Cur.npcs[1].rv + Cur.npcs[1].pv
                            >= 2 * last.pre.flashpoint.threshold)

\* two NPCs: the average over both is above the threshold, that of the first
\* alone is not, and the flashpoint stays armed
C20_Witness ==
    /\ WasTurn /\ last.ok
    /\ hist.succ >= 2
    /\ Len(Cur.npcs) = 2
    /\ Cur.npcs[1].rv > last.pre.npcs[1].rv
    /\ Cur.npcs[2].rv = 300 /\ Cur.npcs[2].pv = 990
    /\ last.pre.flashpoint.cooldown_left = 0
    /\ Cur.flashpoint.armed
    /\ Cur.npcs[1].rv + Cur.npcs[1].pv < 2 * Cur.flashpoint.threshold
    /\ Cur.npcs[1].rv + Cur.npcs[1].pv + Cur.npcs[2].rv + Cur.npcs[2].pv
          >= 4 * Cur.flashpoint.threshold

(***************************************************************************)
(* Properties of the runs on a store that can refuse the write             *)
(* (SpecFaulty).                                                           *)
(***************************************************************************)

\* C10: if persisting the state fails during process_turn (the store is
\* unwritable or the write is interrupted), the request fails and state.json
\* remains the complete last successfully saved document, not an empty,
\* truncated or half-updated one.
C10_FailedSaveKeepsLastGood ==
    (WasTurn /\ last.reason = StoreError) =>
        /\ ~last.ok
        /\ disk = last.diskBefore
        /\ Parses(disk.data)

(***************************************************************************)
(* Properties of the interleaved runs (SpecConc).                          *)
(***************************************************************************)
Idle == \A h \in Handles : wk[h].pc = "new"

\* C8: while save_state is writing the document, a concurrent loader of the
\* same store never reads a partially written (empty or truncated) document:
\* every load finds a complete document, so no load fails to parse the file.
C8_LoadSeesCompleteDocument ==
    \A h \in Handles : wk[h].pc # "crashed"

\* C9: when turns are processed concurrently against the same store no update
\* is lost: once k turns have succeeded and none is in flight, the persisted
\* beat_idx equals its initial value plus k.
C9_NoLostUpdate ==
    (Idle /\ disk.exists /\ Parses(disk.data)) =>
        Persisted.scene.beat_idx = hist.beat0 + hist.succ

(***************************************************************************)
(* Properties of the runs with turns and documents of the wrong shape      *)
(* (SpecMalformed).                                                        *)
(***************************************************************************)

\* C15: a turn that fails because its input is malformed (the first move
\* suggestion has no label) or because the roster has no first NPC causes no
\* mutation: the in-memory state and state.json are the same after the
\* failed call as before it, so a successful turn advances the persisted
\* beat_idx by exactly 1.
C15_FailedTurnMutatesNothing ==
    WasTurn =>
        /\ last.reason \in {"KeyError", "IndexError"} =>
              (~last.ok /\ Cur = last.pre /\ disk = last.diskBefore)
        /\ last.ok =>
              Persisted.scene.beat_idx =
                  Parse(last.diskBefore.data).scene.beat_idx + 1

(***************************************************************************)
(* Properties of the runs of two handles, one call after another           *)
(* (SpecTwo).                                                              *)
(***************************************************************************)

\* C18: every turn is computed from the document that is persisted at the
\* time of the request: if another handle changed state.json after this
\* handle was built, this handle's next turn starts from the changed
\* document, so turns issued strictly one after another through two handles
\* persist a beat_idx equal to the initial one plus the number of successful
\* turns.
C18_TurnStartsFromPersisted ==
    WasTurn =>
        /\ last.pre = Parse(last.diskBefore.data)
        /\ Persisted.scene.beat_idx = hist.beat0 + hist.succ

(***************************************************************************)
(* Frame of a turn.                                                        *)
(***************************************************************************)
\* the document with the seven fields a turn may write erased
Frame(st) ==
    [st EXCEPT !.scene.beat_idx = 0, !.pc.last_move = "",
               !.npcs[1].rv = 0, !.npcs[1].pv = 0,
               !.flashpoint.armed = FALSE, !.flashpoint.cooldown_left = 0,
               !.punsys.wave = <<>>]

\* C21: no turn changes flashpoint.threshold, flashpoint.type, punsys.tier,
\* punsys.gate, the scene's id/tone/location/spi or the pc's name/stance: a
\* successful turn changes only beat_idx, last_move, the first NPC's rv and
\* pv, flashpoint.armed, flashpoint.cooldown_left and punsys.wave, in memory
\* and in state.json; the starting tier and threshold are those of a stored
\* document.
C21_FrameOfTurn ==
    WasTurn =>
        /\ Frame(Cur) = Frame(last.pre)
        /\ Frame(Persisted) = Frame(Parse(last.diskBefore.data))
        /\ Cur.flashpoint.threshold = last.pre.flashpoint.threshold
        /\ Cur.flashpoint.type = "jealousy"
        /\ Cur.punsys.tier = last.pre.punsys.tier
        /\ Cur.punsys.gate = "open"
        /\ \E d \in StoredDocs :
              /\ d.scene.beat_idx = hist.beat0
              /\ Frame(d) = Frame(Cur)

\* the discharging turn of the default document: each of the seven fields
\* changes, tier 2 and threshold 0.7 stay
C21_Witness ==
    /\ WasTurn /\ last.ok
    /\ hist.succ = 8
    /\ last.pre.flashpoint.armed /\ ~Cur.flashpoint.armed
    /\ Cur.flashpoint.cooldown_left # last.pre.flashpoint.cooldown_left
    /\ Cur.pc.last_move # last.pre.pc.last_move
    /\ Cur.punsys.wave # last.pre.punsys.wave
    /\ Cur.npcs[1].rv > last.pre.npcs[1].rv
    /\ Cur.scene.beat_idx = last.pre.scene.beat_idx + 1
    /\ Cur.punsys.tier = 2 /\ Cur.flashpoint.threshold = 700
    /\ Frame(Persisted) = Frame(last.pre)

(***************************************************************************)
(* Properties of POST /play (SpecPlay).                                    *)
(***************************************************************************)
BlankText(i) == Strip(calls[i].payload.text) = <<>>

\* the anchor the i-th call is to carry: its own when that is non-blank
\* (stripped or as sent), else that of the most recent earlier call whose
\* text was not blank, else "first_meet"
RECURSIVE AnchorDue(_, _)
AnchorDue(i, stripped) ==
    LET own == OrEmpty(calls[i].payload.anchor)
        earlier == { k \in 1..(i - 1) : ~BlankText(k) }
    IN  IF Strip(own) # <<>>
        THEN IF stripped THEN Strip(own) ELSE own
        ELSE IF earlier # {}
        THEN AnchorDue(CHOOSE k \in earlier : \A m \in earlier : m <= k,
                       stripped)
        ELSE first_meet

RememberedBefore(i) == IF i = 1 THEN first_meet ELSE calls[i - 1].remembered

\* what holds of the i-th call whichever way the anchor is read
PlayCallSound(i, stripped) ==
    LET c == calls[i]
    IN  /\ c.built # None =>
              /\ Truthy(c.built[1].params.anchor_hint)
              /\ c.built[1].params.anchor_hint[1] = AnchorDue(i, stripped)
              /\ c.built[1].job_type = "scene"
        /\ BlankText(i) =>
              /\ c.status = 400
              /\ c.built = None /\ ~c.sent
              /\ c.remembered = RememberedBefore(i)

\* C22 as stated: every scene job forwarded to the bridge carries a non-empty
\* anchor: the anchor of the request when it is non-blank, otherwise the
\* anchor used by the most recent earlier request that had non-empty text,
\* otherwise "first_meet"; a request with blank text is answered 400 without
\* calling the bridge and without changing the remembered anchor.
C22_RequestAnchorForwarded ==
    \A i \in 1..Len(calls) : PlayCallSound(i, FALSE)

\* C22 amended: every scene job handed to the bridge carries a non-empty
\* anchor: the anchor of the request with its leading and trailing white
\* space removed when that is non-empty, otherwise the anchor carried by the
\* most recent earlier request whose text was not blank, otherwise
\* "first_meet"; every request whose text is not blank hands a job to the
\* bridge; a request with blank text is answered 400 without calling the
\* bridge and without changing the remembered anchor, which is always the
\* anchor of the last job.
C22_StrippedAnchorForwarded ==
    /\ \A i \in 1..Len(calls) :
          /\ PlayCallSound(i, TRUE)
          /\ ~BlankText(i) =>
                /\ calls[i].built # None
                /\ calls[i].remembered = AnchorDue(i, TRUE)
                /\ calls[i].status \in {200, 502}
    /\ LAST_ANCHOR # <<>>
    /\ LAST_ANCHOR = RememberedBefore(Len(calls) + 1)

\* anchor " c " with text, then a blank text with anchor "r", then a text
\* without anchor: the third job carries "c"
C22_Witness ==
    /\ Len(calls) = 3
    /\ calls[1].payload.anchor = Some(<<32, 99, 32>>) /\ ~BlankText(1)
    /\ calls[1].built[1].params.anchor_hint = Some(<<99>>)
    /\ calls[2].payload.anchor = Some(<<114>>) /\ BlankText(2)
    /\ calls[2].status = 400 /\ calls[2].built = None
    /\ calls[3].payload.anchor = None /\ ~BlankText(3)
    /\ calls[3].built # None
    /\ calls[3].built[1].params.anchor_hint = Some(<<99>>)
    /\ calls[3].sent /\ calls[3].status = 200
    /\ LAST_ANCHOR = <<99>>

(***************************************************************************)
(* Properties of POST /vv/jobs (SpecJobs).                                 *)
(***************************************************************************)
Served == job.gates # <<>>
Ran(gate) == \E i \in 1..Len(job.gates) : job.gates[i] = gate
GateOrder == <<"auth", "schema", "minimal", "handler", "format">>

\* the request carries the configured secret, bare or after "Bearer "
PassedAuth ==
    LET h == job.req.headers
        given == Strip(OrEmpty(IF Truthy(h.authorization) THEN h.authorization
                               ELSE h.x_shared_secret))
        want == Strip(env.VV_SHARED_SECRET)
    IN  want # <<>> /\ (given = want \/ given = Bearer \o want)

\* the body is an object with the pinned version, both ids and a job type
PassedSchema ==
    LET p == job.req.body.payload
    IN  /\ job.req.body.kind = "object"
        /\ p.version = Some(Strip(env.ENGINE_VERSION))
        /\ p.session_id # None /\ p.job_id # None
        /\ p.job_type # None /\ p.job_type[1] \in JobTypes

PassedMinimal ==
    LET p == job.req.body.payload.params
        t == OrEmpty(job.req.body.payload.job_type)
    IN  /\ t = "scene" =>
              (Truthy(p.anchor_hint) \/ Truthy(p.goal) \/ Truthy(p.scene_ref))
        /\ t = "setup" => p.answers # None
        /\ t = "subs" => (Truthy(p.scene_ref) \/ Truthy(p.scene_text))

\* the gates run in the stated order; the handler runs only behind the three
\* input gates; ok = true only behind the format guard
GatesSound ==
    /\ \A i \in 1..Len(job.gates) : job.gates[i] = GateOrder[i]
    /\ Ran("handler") => (PassedAuth /\ PassedSchema /\ PassedMinimal)
    /\ job.resp.ok =>
          /\ Ran("handler") /\ Ran("format")
          /\ job.resp.status = 200
          /\ validate_artifact(job.req.body.payload.job_type[1],
                               job.resp.content)

\* C23: in POST /vv/jobs the gates run in the order shared-secret auth,
\* schema and version validation, minimal-input check, handler, format
\* guard: a job handler is invoked only for a request that passed auth,
\* schema/version validation and the minimal-input check for its job type,
\* and a response with ok = true is returned only when additionally the
\* handler's artifact passed the format guard; every other outcome has
\* ok = false with at least one error entry.
C23_GatesAndUniformResult ==
    Served =>
        /\ GatesSound
        /\ ~job.resp.ok =>
              /\ job.resp.kind = "BridgeResult"
              /\ Len(job.resp.errors) >= 1

(***************************************************************************)
(* The flashpoint over several turns (Spec).                               *)
(***************************************************************************)
\* a turn that passes every check of any stored document
QuietTurn ==
    [narration_en |-> <<81, 46>>, dialogue_jp |-> <<JpLine>>,
     punsys_feedback |-> [pressure_hint |-> 500, tier_suggestion |-> 1],
     pc_move_suggestions |-> <<>>]

\* the document after n further successful turns
RECURSIVE TurnsAfter(_, _)
TurnsAfter(st, n) ==
    IF n = 0 THEN st
    ELSE Advance(TurnsAfter(st, n - 1), QuietTurn, st.punsys.wave)

\* C24: the flashpoint is one-shot: once flashpoint.armed is false no turn
\* sets it back to true, and after a discharge cooldown_left counts down
\* 5, 4, 3, 2, 1, 0 over the next five successful turns and then stays 0;
\* rejected turns in between change nothing.
C24_OneShot ==
    WasTurn =>
        LET old == last.pre.flashpoint
            new == Cur.flashpoint
        IN  /\ ~old.armed => ~new.armed
            /\ (last.ok /\ ~old.armed) =>
                  new.cooldown_left =
                      IF old.cooldown_left > 0 THEN old.cooldown_left - 1 ELSE 0
            /\ ~last.ok => new = old
            /\ (last.ok /\ old.armed /\ ~new.armed) =>
                  /\ new.cooldown_left = 5
                  /\ \A n \in 1..8 :
                        LET fp == TurnsAfter(Cur, n).flashpoint
                        IN  /\ ~fp.armed
                            /\ fp.cooldown_left = IF n < 5 THEN 5 - n ELSE 0

\* the stored document that discharges in its first turn, seven successful
\* turns on: the cooldown ran 5, 4, 3, 2, 1, 0 and stayed 0 in the seventh
C24_Witness ==
    /\ WasTurn /\ last.ok
    /\ hist.succ = 7 /\ hist.beat0 = 0
    /\ Cur.npcs[1].rv = 900 /\ Cur.npcs[1].pv = 850
    /\ ~last.pre.flashpoint.armed /\ last.pre.flashpoint.cooldown_left = 0
    /\ ~Cur.flashpoint.armed /\ Cur.flashpoint.cooldown_left = 0

(***************************************************************************)
(* Progress of the flashpoint (SpecLive).                                  *)
(***************************************************************************)
\* C25: starting from the default state, or from any stored state with armed
\* true, threshold in [0,1] and a finite cooldown_left, if valid turns keep
\* being processed then flashpoint.armed eventually becomes false.
C25_EventuallyDischarged ==
    (wk[H].pc = "ready" /\ Cur.flashpoint.armed) ~> ~Cur.flashpoint.armed

\* the slowest document discharges in its 50th turn, when rv reaches 1.0
C25_Witness ==
    /\ WasTurn /\ last.ok
    /\ hist.succ = 50 /\ hist.beat0 = 0
    /\ last.pre.flashpoint.armed /\ ~Cur.flashpoint.armed
    /\ Cur.flashpoint.threshold = 1000
    /\ last.pre.npcs[1].rv = 980 /\ Cur.npcs[1].rv = 1000
    /\ Cur.npcs[1].pv = 1000

(***************************************************************************)
(* The fields of a turn that process_turn does not read (SpecHinted).      *)
(***************************************************************************)
Lines(turn) == [i \in 1..Len(turn.dialogue_jp) |-> turn.dialogue_jp[i].line]

\* two turns agree on narration, dialogue lines, tier_suggestion and first
\* move label
SameRead(t1, t2) ==
    /\ t1.narration_en = t2.narration_en
    /\ Lines(t1) = Lines(t2)
    /\ t1.punsys_feedback.tier_suggestion = t2.punsys_feedback.tier_suggestion
    /\ FirstLabel(t1) = FirstLabel(t2)

\* the turn passes the three rules, read off the turn itself
Lawful(st, turn) ==
    /\ \A i \in 1..Len(turn.narration_en) :
          ~contains_japanese(turn.narration_en[i])
    /\ \A j \in 1..Len(turn.dialogue_jp) :
          \A i \in 1..Len(turn.dialogue_jp[j].line) :
              ~contains_english(turn.dialogue_jp[j].line[i])
    /\ turn.punsys_feedback.tier_suggestion <= st.punsys.tier

\* C26: the outcome of process_turn (accept or reject, and every non-wave
\* field of the next state) does not depend on the inbound turn's scene_id,
\* beat_idx, markers, pressure_hint, flashpoint_hint or
\* post_scene_breakdown: two turns that agree on narration, dialogue lines,
\* tier_suggestion and first move label produce the same outcome from the
\* same state, so a turn whose beat_idx or scene_id does not match the
\* stored scene is still accepted.
C26_UnreadFieldsIrrelevant ==
    wk[H].pc = "ready" =>
        /\ \A t1, t2 \in HintedTurns :
              SameRead(t1, t2) =>
                  /\ Validate(Cur, t1) = Validate(Cur, t2)
                  /\ \A w \in WaveSamples :
                        NoWave(Advance(Cur, t1, w)) = NoWave(Advance(Cur, t2, w))
        /\ WasTurn =>
              /\ last.ok = Lawful(last.pre, inbound)
              /\ \A t \in HintedTurns :
                    (SameRead(t, inbound) /\ last.ok) =>
                        \A w \in WaveSamples :
                            NoWave(Cur) = NoWave(Advance(last.pre, t, w))

\* a turn for scene S-999, beat 7, with a marker and a ready flashpoint
\* hint, accepted at beat 2 of scene S-001
C26_Witness ==
    /\ WasTurn /\ last.ok
    /\ inbound.scene_id = "S-999" /\ last.pre.scene.id = "S-001"
    /\ inbound.beat_idx = 7 /\ last.pre.scene.beat_idx = 2
    /\ inbound.flashpoint_hint.ready_to_trigger /\ Len(inbound.markers) = 1
    /\ Cur.scene.beat_idx = 3 /\ Cur.scene.id = "S-001"
    /\ Cur.flashpoint.armed
    /\ Persisted = Cur

====
